---- MODULE Spec2Model ----
(***************************************************************************)
(* Event-driven simulation of a continuous-time Markov process: the two    *)
(* versions of `evolution` of the repository (the older one without a rate *)
(* ceiling and with a list-comprehension resampler, the newer one with     *)
(* `maxrate` and an interp1d(kind='previous') resampler).                  *)
(*                                                                         *)
(* Times are integers (a fixed time unit); an exponential draw is any      *)
(* positive time.  A transition map (a Python dict) is a sequence of       *)
(* <<candidate, rate>> pairs with distinct candidates, in insertion order. *)
(***************************************************************************)
EXTENDS Integers, Sequences, FiniteSets, TLC

\* ---- bounds of the model ----
MaxDraw == 2
MaxSpan == 2
MaxQueries == 1
MaxNx == 6
MaxStart == 3
MaxEig == 3
MaxSteps == 3

\* states are opaque dict keys: two of them
States == {0, 1}
\* maxrate: falsy (no ceiling) or a ceiling
Ceilings == {0, 2}
\* rates: negative, zero, below the ceiling, at the ceiling, above it
Rates == {0 - 1, 0, 1, 2, 3}
Draws == 1..MaxDraw
Starts == {0 - 2, 0, 1}
Spans == 1..MaxSpan

Old == "part_004"
New == "part_003"
Versions == {Old, New}

VARIABLES
    version,        \* which notebook's evolution is running
    fun,            \* the transition function: any, decay, birth
    tmin, tmax,     \* tspan / ts[0], ts[-1]
    state0,         \* the initial state argument
    maxrate,        \* the ceiling argument (0: falsy, no ceiling)
    t, state,       \* the loop's current time and state
    ts, history,    \* recorded times and recorded states
    fun_result,     \* what fun(t, state) returned in the last iteration
    transitions,    \* the candidates kept after filtering, last iteration
    times_to_move,  \* the exponential draws of the last iteration
    ndraws,         \* exponential variates drawn in the current iteration
    warned,         \* a RuntimeWarning was issued
    halt,           \* why the loop ended: none, absorbed, ceiling, tmax
    pc,             \* loop, post, returned, raised
    t_eval,         \* the resampling grid (<<>> with resampled = FALSE: None)
    resampled,      \* a resampling grid was given
    out,            \* the value returned: a sequence of <<time, state>>
    \* -- the finite-difference builders (discretise, d4dx4_mat) --
    builder,        \* which builder is called ("none": no call)
    xa, xb, nx,     \* the domain and the number of points
    bcs,            \* the boundary-condition tag
    dx_int,         \* d4dx4_mat only: dx is the Python int 1 (the default)
    d_pc,           \* idle, call, returned, raised
    err,            \* the exception raised ("none": none)
    xs, dx,         \* the grid and the spacing, times (nx - 1)
    eye,            \* the identity matrix, times (nx - 1)^2
    ddx,            \* the first-derivative matrix, times 6 dx
    d2dx2,          \* the second-derivative matrix, times dx^2
    d4dx4,          \* the fourth-derivative matrix, times dx^4
    \* -- the eigenproblem wrappers (myeig, orrsommsolver) --
    caller,         \* myeig called directly, or by orrsommsolver ("none")
    e_nx,           \* op.shape[0]
    alpha,          \* orrsommsolver: the wavenumber
    b_singular,     \* the mass matrix passed to eig is singular
    s_eigvals,      \* what eig returned: eigenvalues <<re, im>>
    s_eigvecs,      \* what eig returned: the columns, entries <<v, p>>
                    \*   standing for v * sqrt(nx)^p
    ordering,       \* the local `ordering` (indices from 1)
    keep,           \* orrsommsolver: the local `keep` (indices from 1)
    growths,        \* orrsommsolver: -1j * alpha * eigvals
    eigvals,        \* the local `eigvals`
    eigvecs,        \* the local `eigvecs`, as a sequence of columns
    e_pc,           \* idle, call, myeig_returned, returned
    \* -- gradient_descent --
    min_steps, max_steps, abstol,   \* its arguments
    guesses,        \* the iterates
    fs,             \* the function values
    g_pc,           \* idle, test, body, returned, raised
    \* -- the arrays discretise returns, as objects --
    heap,           \* the arrays allocated so far, by identity
    calls           \* per call of discretise, the identities it returned

evolution_vars == <<version, fun, tmin, tmax, state0, maxrate, t, state, ts, history,
          fun_result, transitions, times_to_move, ndraws, warned, halt, pc,
          t_eval, resampled, out>>

fd_vars == <<builder, xa, xb, nx, bcs, dx_int, d_pc, err, xs, dx, eye, ddx,
             d2dx2, d4dx4>>

eig_vars == <<caller, e_nx, alpha, b_singular, s_eigvals, s_eigvecs, ordering,
              keep, growths, eigvals, eigvecs, e_pc>>

gd_vars == <<min_steps, max_steps, abstol, guesses, fs, g_pc>>

own_vars == <<heap, calls>>

\* what each part of the repository leaves alone
evolution_frame == <<fd_vars, eig_vars, gd_vars, own_vars>>
fd_frame == <<evolution_vars, eig_vars, gd_vars, own_vars>>
eig_frame == <<evolution_vars, fd_vars, gd_vars, own_vars>>
gd_frame == <<evolution_vars, fd_vars, eig_vars, own_vars>>
own_frame == <<evolution_vars, fd_vars, eig_vars, gd_vars>>

vars == <<evolution_vars, fd_vars, eig_vars, gd_vars, own_vars>>

\* ---- helpers ----
Last(s) == s[Len(s)]

Keys(m) == {m[i][1] : i \in 1..Len(m)}

\* the dicts a transition function may return: distinct keys, any rates
TransitionMaps ==
    {m \in UNION {[1..n -> States \X Rates] : n \in 0..Cardinality(States)} :
        Cardinality(Keys(m)) = Len(m)}

\* a death process that never runs out
Decay_constantRate(s) == <<<<s - 1, 1>>>>

\* the death term {s - 1: beta * s} of immigration_death_demo, with beta = 1
\* and no immigration: pure decay
Decay(s) == <<<<s - 1, s>>>>

\* the birth process of singular_demo, {s + step: 100 * s ** 2}, with unit
\* steps
Birth(s) == <<<<s + 1, 100 * s * s>>>>

\* what fun(t, state) may return
FunMaps(f, s) ==
    IF f = "decay" THEN {Decay(s)}
    ELSE IF f = "birth" THEN {Birth(s)}
    ELSE TransitionMaps

\* a filter that lets a zero rate through
IsPositive_orZero(e) == e[2] >= 0

IsPositive(e) == e[2] > 0

\* a filter that keeps every candidate
Positive_keepsAll(m) == m

\* {k: transitions[k] for k in transitions if transitions[k] > 0}
Positive(m) == SelectSeq(m, IsPositive)

\* a ceiling that lets a rate equal to it through
BelowMaxrate_orEqual(m, mr) ==
    LET below(e) == e[2] <= mr IN SelectSeq(m, below)

\* {k: transitions[k] for k in transitions if transitions[k] < maxrate}
BelowMaxrate(m, mr) ==
    LET below(e) == e[2] < mr IN SelectSeq(m, below)

\* a ceiling that is never applied
CeilingOn_never(v, mr) == FALSE

\* `if maxrate:` (only the newer evolution has the argument)
CeilingOn(v, mr) == v = New /\ mr # 0

\* a filter without the ceiling
Kept_positiveOnly(v, mr, m) == Positive(m)

Kept(v, mr, m) ==
    IF CeilingOn(v, mr) THEN BelowMaxrate(Positive(m), mr) ELSE Positive(m)

\* the longest time wins
ArgMin_longest(d) ==
    CHOOSE i \in 1..Len(d) : \A j \in 1..Len(d) : d[i] >= d[j]

\* min(times_to_move, key=...): the first key, in dict order, of least value
ArgMin(d) ==
    CHOOSE i \in 1..Len(d) :
        /\ \A j \in 1..Len(d) : d[i] <= d[j]
        /\ \A j \in 1..(i - 1) : d[j] > d[i]

\* the first recorded time: ts = [t] in the newer, [[0, state0]] in the older
FirstTime(v, t0) == IF v = New THEN t0 ELSE 0

\* a trajectory returned without its last event
Events_dropsLast(tt, hh) == [i \in 1..(Len(tt) - 1) |-> <<tt[i], hh[i]>>]

Events(tt, hh) == [i \in 1..Len(tt) |-> <<tt[i], hh[i]>>]

Times(tt) == {tt[i] : i \in 1..Len(tt)}
Earliest(tt) == CHOOSE x \in Times(tt) : \A y \in Times(tt) : x <= y
Latest(tt) == CHOOSE x \in Times(tt) : \A y \in Times(tt) : y <= x

\* the grids a caller may pass as resample / t_eval: in any order, of times
\* from just before the earliest recorded time to just after the latest
QueryTimes(tt) == (Earliest(tt) - 1)..(Latest(tt) + 1)
QueryGrids(tt) == UNION {[1..n -> QueryTimes(tt)] : n \in 0..MaxQueries}

\* [h for h in history if h[0] <= t]
AtOrBefore(tt, q) == {i \in 1..Len(tt) : tt[i] <= q}

\* max([...], key=lambda h: h[0]) raises ValueError on an empty list
OldFails(tt, q) == AtOrBefore(tt, q) = {}

\* max(..., key=...): the first element, in list order, of greatest key
OldLastEvent(tt, q) ==
    CHOOSE i \in AtOrBefore(tt, q) :
        /\ \A j \in AtOrBefore(tt, q) : tt[j] <= tt[i]
        /\ \A j \in AtOrBefore(tt, q) : j < i => tt[j] < tt[i]

\* interp1d with the default bounds_error: a query outside [x[0], x[-1]]
\* raises ValueError
NewFails(tt, q) == q < tt[1] \/ q > Last(tt)

\* kind='previous': y[searchsorted(nextafter(x, -inf), q, side='left') - 1],
\* the number of recorded times at or before q indexes the state
NewLastEvent(tt, q) == Cardinality({i \in 1..Len(tt) : tt[i] <= q})

Fails(v, tt, q) == IF v = New THEN NewFails(tt, q) ELSE OldFails(tt, q)

LastEvent(v, tt, q) ==
    IF v = New THEN NewLastEvent(tt, q) ELSE OldLastEvent(tt, q)

\* the first query, in grid order, at which the look-up raises (0: none)
FirstFailure(v, tt, g) ==
    IF \E i \in 1..Len(g) : Fails(v, tt, g[i])
    THEN CHOOSE i \in 1..Len(g) :
            /\ Fails(v, tt, g[i])
            /\ \A j \in 1..(i - 1) : ~Fails(v, tt, g[j])
    ELSE 0

\* no builder is being called
FdIdle ==
    /\ builder = "none" /\ xa = 0 /\ xb = 0 /\ nx = 0 /\ bcs = "none"
    /\ dx_int = FALSE /\ d_pc = "idle" /\ err = "none"
    /\ xs = <<>> /\ dx = 0
    /\ eye = <<>> /\ ddx = <<>> /\ d2dx2 = <<>> /\ d4dx4 = <<>>

\* no eigenproblem is being solved
EigIdle ==
    /\ caller = "none" /\ e_nx = 0 /\ alpha = 0 /\ b_singular = FALSE
    /\ s_eigvals = <<>> /\ s_eigvecs = <<>> /\ ordering = <<>> /\ keep = <<>>
    /\ growths = <<>> /\ eigvals = <<>> /\ eigvecs = <<>> /\ e_pc = "idle"

\* gradient_descent is not running, discretise has returned nothing
GdIdle ==
    /\ min_steps = 0 /\ max_steps = 0 /\ abstol = 0
    /\ guesses = <<>> /\ fs = <<>> /\ g_pc = "idle"

OwnIdle == heap = <<>> /\ calls = <<>>

Init ==
    /\ FdIdle
    /\ EigIdle
    /\ GdIdle
    /\ OwnIdle
    /\ version \in Versions
    /\ fun = "any"
    /\ tmin \in Starts
    /\ \E s \in Spans : tmax = tmin + s
    /\ state0 \in States
    /\ maxrate \in (IF version = New THEN Ceilings ELSE {0})
    /\ t = tmin
    /\ state = state0
    /\ ts = <<FirstTime(version, tmin)>>
    /\ history = <<state0>>
    /\ fun_result = <<>>
    /\ transitions = <<>>
    /\ times_to_move = <<>>
    /\ ndraws = 0
    /\ warned = FALSE
    /\ halt = "none"
    /\ pc = "test"
    /\ t_eval = <<>>
    /\ resampled = FALSE
    /\ out = <<>>

Config == <<version, fun, tmin, tmax, state0, maxrate>>
Result == <<t_eval, resampled, out>>

\* the loop body's locals are dead wherever they are not about to be read:
\* every iteration assigns them before it reads them, nothing after the loop
\* reads them
Forget ==
    /\ fun_result' = <<>>
    /\ transitions' = <<>>
    /\ times_to_move' = <<>>
    /\ ndraws' = 0

\* `while t < tmax:` holds, the body is entered
EnterBody ==
    /\ pc = "test" /\ t < tmax
    /\ pc' = "body"
    /\ Forget
    /\ UNCHANGED <<evolution_frame, Config, Result, t, state, ts, history, warned, halt>>

\* `while t < tmax:` fails, the loop ends
TimeLimit ==
    /\ pc = "test" /\ t >= tmax
    /\ halt' = "tmax"
    /\ pc' = "post"
    /\ UNCHANGED <<evolution_frame, Config, Result, t, state, ts, history, fun_result,
                   transitions, times_to_move, ndraws, warned>>

\* `if not transitions: break` after the rate > 0 filter
Absorb(m) ==
    /\ pc = "body"
    /\ Positive(m) = <<>>
    /\ fun_result' = m
    /\ transitions' = Positive(m)
    /\ halt' = "absorbed"
    /\ pc' = "post"
    /\ UNCHANGED <<evolution_frame, Config, Result, t, state, ts, history, times_to_move,
                   ndraws, warned>>

\* a ceiling halt that raises instead of warning and breaking
CeilingHalt_raises(m) ==
    /\ pc = "body"
    /\ Positive(m) # <<>>
    /\ CeilingOn(version, maxrate)
    /\ BelowMaxrate(Positive(m), maxrate) = <<>>
    /\ fun_result' = m
    /\ transitions' = BelowMaxrate(Positive(m), maxrate)
    /\ halt' = "ceiling"
    /\ pc' = "raised"
    /\ UNCHANGED <<evolution_frame, Config, Result, t, state, ts, history, times_to_move,
                   ndraws, warned>>

\* `if maxrate:` ... `if not transitions: warnings.warn(...); break`
CeilingHalt(m) ==
    /\ pc = "body"
    /\ Positive(m) # <<>>
    /\ CeilingOn(version, maxrate)
    /\ BelowMaxrate(Positive(m), maxrate) = <<>>
    /\ fun_result' = m
    /\ transitions' = BelowMaxrate(Positive(m), maxrate)
    /\ warned' = TRUE
    /\ halt' = "ceiling"
    /\ pc' = "post"
    /\ UNCHANGED <<evolution_frame, Config, Result, t, state, ts, history, times_to_move,
                   ndraws>>

\* one draw per kept candidate, the shortest time wins, the event is appended
Jump(m, d) ==
    /\ pc = "body"
    /\ Kept(version, maxrate, m) # <<>>
    /\ Len(d) = Len(Kept(version, maxrate, m))
    /\ LET kept == Kept(version, maxrate, m)
           new_state == kept[ArgMin(d)][1]
           time_elapsed == d[ArgMin(d)]
       IN /\ fun_result' = m
          /\ transitions' = kept
          /\ times_to_move' = d
          /\ ndraws' = Len(kept)
          /\ t' = t + time_elapsed
          /\ state' = new_state
          /\ ts' = Append(ts, t + time_elapsed)
          /\ history' = Append(history, new_state)
    /\ pc' = "test"
    /\ UNCHANGED <<evolution_frame, Config, Result, warned, halt>>

\* one iteration of the loop body, for any map fun may return and any draws
Iterate ==
    \E m \in FunMaps(fun, state) :
        \/ Absorb(m)
        \/ CeilingHalt(m)
        \/ \E d \in UNION {[1..n -> Draws] : n \in 1..Len(m)} : Jump(m, d)

\* after the loop: ts = np.array(ts); history = np.array(history)
ToArrays ==
    /\ pc = "post"
    /\ pc' = "tail"
    /\ Forget
    /\ UNCHANGED <<evolution_frame, Config, Result, t, state, ts, history, warned, halt>>

\* `if t_eval is None: return ts, history`
ReturnTrajectory ==
    /\ pc = "tail"
    /\ out' = Events(ts, history)
    /\ pc' = "returned"
    /\ UNCHANGED <<evolution_frame, Config, t, state, ts, history, fun_result, transitions,
                   times_to_move, ndraws, warned, halt, t_eval, resampled>>

\* the resampling tail of evolution: one look-up per query, in grid order;
\* the older version's `for t in resample` rebinds t
Resample(g) ==
    /\ pc = "tail"
    /\ t_eval' = g
    /\ resampled' = TRUE
    /\ LET f == FirstFailure(version, ts, g)
       IN /\ pc' = IF f = 0 THEN "returned" ELSE "raised"
          /\ out' = IF f = 0
                    THEN [i \in 1..Len(g) |->
                            <<g[i], history[LastEvent(version, ts, g[i])]>>]
                    ELSE <<>>
          /\ t' = IF version = New \/ g = <<>> THEN t
                  ELSE IF f = 0 THEN Last(g) ELSE g[f]
    /\ UNCHANGED <<evolution_frame, Config, state, ts, history, fun_result, transitions,
                   times_to_move, ndraws, warned, halt>>

ResampleOnGrid == \E g \in QueryGrids(ts) : Resample(g)

Next ==
    \/ EnterBody
    \/ TimeLimit
    \/ Iterate
    \/ ToArrays
    \/ ReturnTrajectory
    \/ ResampleOnGrid

Spec == Init /\ [][Next]_vars

\* ---- the two example processes ----
\* a time limit that is reached at the first event, and one that the
\* example runs do not reach
TimeLimits == {1, 10 * MaxDraw}

InitDemo ==
    /\ FdIdle
    /\ EigIdle
    /\ GdIdle
    /\ OwnIdle
    /\ fun \in {"decay", "birth"}
    /\ version \in (IF fun = "decay" THEN Versions ELSE {New})
    /\ tmin = 0
    /\ tmax \in TimeLimits
    /\ state0 \in (IF fun = "decay" THEN 1..MaxStart ELSE {0, 1})
    /\ maxrate \in (IF version = Old THEN {0}
                    ELSE IF fun = "decay" THEN {0, MaxStart}
                    ELSE {100 * 100})
    /\ t = tmin
    /\ state = state0
    /\ ts = <<FirstTime(version, tmin)>>
    /\ history = <<state0>>
    /\ fun_result = <<>>
    /\ transitions = <<>>
    /\ times_to_move = <<>>
    /\ ndraws = 0
    /\ warned = FALSE
    /\ halt = "none"
    /\ pc = "test"
    /\ t_eval = <<>>
    /\ resampled = FALSE
    /\ out = <<>>

\* the examples are run without a resampling grid
NextDemo ==
    \/ EnterBody
    \/ TimeLimit
    \/ Iterate
    \/ ToArrays
    \/ ReturnTrajectory

\* the interpreter keeps running the call until it returns
SpecDemo == InitDemo /\ [][NextDemo]_vars /\ WF_vars(NextDemo)

\* ---- finite-difference operator matrices ----
\* Matrices are functions [0..n-1 -> [0..n-1 -> Int]] (row, then column), in
\* exact arithmetic.  With S = xb - xa and dx = S / (nx - 1), the variables
\* hold xs * (nx - 1), dx * (nx - 1) = S, eye * (nx - 1)^2, ddx * 6 dx,
\* d2dx2 * dx^2 and d4dx4 * dx^4, all of which are integers.

Idx(n) == 0..(n - 1)

\* np.eye(n)
Eye(n) == [i \in Idx(n) |-> [j \in Idx(n) |-> IF i = j THEN 1 ELSE 0]]

\* a roll in the opposite direction
Roll_backwards(M, n, s) ==
    [i \in Idx(n) |-> [j \in Idx(n) |-> M[i][(j + s) % n]]]

\* np.roll(M, s, 1): column j of the result is column j - s of M, cyclically
Roll(M, n, s) ==
    [i \in Idx(n) |-> [j \in Idx(n) |-> M[i][(j - s) % n]]]

Plus(A, B, n) == [i \in Idx(n) |-> [j \in Idx(n) |-> A[i][j] + B[i][j]]]
Scale(c, A, n) == [i \in Idx(n) |-> [j \in Idx(n) |-> c * A[i][j]]]

\* (np.roll(eye, 1, 1) - np.roll(eye, -1, 1)) / (2*dx), times 6 dx
CentralD(n) ==
    Scale(3, Plus(Roll(Eye(n), n, 1), Scale(0 - 1, Roll(Eye(n), n, 0 - 1), n),
                  n), n)

\* the central second difference without its cyclic neighbours
CentralD2_clipped(n) ==
    [i \in Idx(n) |-> [j \in Idx(n) |->
        IF i = j THEN 0 - 2 ELSE IF j = i + 1 \/ j = i - 1 THEN 1 ELSE 0]]

\* (np.roll(eye, 1, 1) - 2*eye + np.roll(eye, -1, 1)) / (dx*dx), times dx^2
CentralD2(n) ==
    Plus(Plus(Roll(Eye(n), n, 1), Scale(0 - 2, Eye(n), n), n),
         Roll(Eye(n), n, 0 - 1), n)

\* (np.roll(eye, 2, 1) - 4*np.roll(eye, 1, 1) + 6*eye
\*  - 4*np.roll(eye, -1, 1) + np.roll(eye, -2, 1)) / dx**4, times dx^4
CentralD4(n) ==
    Plus(Plus(Plus(Plus(Roll(Eye(n), n, 2),
                        Scale(0 - 4, Roll(Eye(n), n, 1), n), n),
                   Scale(6, Eye(n), n), n),
              Scale(0 - 4, Roll(Eye(n), n, 0 - 1), n), n),
         Roll(Eye(n), n, 0 - 2), n)

\* a Python slice bound k on an axis of length n
Bound(n, k) ==
    IF k < 0 THEN (IF n + k < 0 THEN 0 ELSE n + k)
    ELSE (IF k > n THEN n ELSE k)

\* a Python index r on an axis of length n
At(n, r) == IF r < 0 THEN n + r ELSE r

\* M[r, a:b] = 0   (a, b already bounded)
ZeroSlice(M, n, r, a, b) ==
    [M EXCEPT ![r] = [j \in Idx(n) |-> IF j >= a /\ j < b THEN 0 ELSE @[j]]]

\* M[r, a:b] = vals, which numpy accepts only if the lengths agree
SliceFits(a, b, vals) == Len(vals) = (IF b > a THEN b - a ELSE 0)

SetSlice(M, n, r, a, b, vals) ==
    [M EXCEPT ![r] = [j \in Idx(n) |->
                        IF j >= a /\ j < b THEN vals[j - a + 1] ELSE @[j]]]

\* (-11/6, 3, -3/2, 1/3) / dx and (-1/3, 3/2, -3, 11/6) / dx, times 6 dx
ForwardD == <<0 - 11, 18, 0 - 9, 2>>
BackwardD == <<0 - 2, 9, 0 - 18, 11>>
\* (-1, 4, -5, 2) / (dx*dx), times dx^2
BackwardD2 == <<0 - 1, 4, 0 - 5, 2>>
\* a one-sided second difference with the sign of its last entry flipped
ForwardD2_wrongSign == <<2, 0 - 5, 4, 1>>
\* (2, -5, 4, -1) / (dx*dx), times dx^2
ForwardD2 == <<2, 0 - 5, 4, 0 - 1>>
\* (1, -4, 6, -4, 1) / dx**4, times dx^4
ForwardD4 == <<1, 0 - 4, 6, 0 - 4, 1>>

\* M[0, 4:] = 0; M[0, :4] = first; M[-1, :-4] = 0; M[-1, -4:] = last
OneSided(M, n, first, last) ==
    LET A == ZeroSlice(M, n, 0, Bound(n, 4), n)
        B == SetSlice(A, n, 0, 0, Bound(n, 4), first)
        C == ZeroSlice(B, n, At(n, 0 - 1), 0, Bound(n, 0 - 4))
    IN SetSlice(C, n, At(n, 0 - 1), Bound(n, 0 - 4), n, last)

\* the first of the four-entry assignments fits
OneSidedFits(n) == SliceFits(0, Bound(n, 4), ForwardD)

\* eye[0, 0] = dx*dx; eye[-1, -1] = dx*dx, on eye * (nx - 1)^2
NeumannEye(E, n, S) ==
    [E EXCEPT ![0] = [@ EXCEPT ![0] = S * S],
              ![At(n, 0 - 1)] = [@ EXCEPT ![At(n, 0 - 1)] = S * S]]

\* a grid that stops one step short of xb
Linspace_open(a, b, n) == [i \in Idx(n) |-> a * (n - 1) + i * (b - a) - i]

\* np.linspace(xa, xb, nx), times (nx - 1)
Linspace(a, b, n) == [i \in Idx(n) |-> a * (n - 1) + i * (b - a)]

Tags == {"periodic", "dirichlet", "neumann", "robin"}
Ends == {0 - 1, 0, 1}
Sizes == (0 - 1)..MaxNx

\* no evolution is running
EvolutionIdle ==
    /\ version = New /\ fun = "any" /\ tmin = 0 /\ tmax = 0 /\ state0 = 0 /\ maxrate = 0
    /\ t = 0 /\ state = 0 /\ ts = <<>> /\ history = <<>>
    /\ fun_result = <<>> /\ transitions = <<>> /\ times_to_move = <<>>
    /\ ndraws = 0 /\ warned = FALSE /\ halt = "none" /\ pc = "idle"
    /\ t_eval = <<>> /\ resampled = FALSE /\ out = <<>>

\* a call of one of the builders, with its arguments
InitFD ==
    /\ EvolutionIdle
    /\ EigIdle
    /\ GdIdle
    /\ OwnIdle
    /\ builder \in {"discretise_000", "discretise_005", "d4dx4_mat"}
    /\ nx \in Sizes
    /\ xa \in (IF builder = "d4dx4_mat" THEN {0} ELSE Ends)
    /\ xb \in (IF builder = "d4dx4_mat" THEN {0} ELSE Ends)
    /\ bcs \in (IF builder = "discretise_005" THEN {"none"} ELSE Tags)
    /\ dx_int \in (IF builder = "d4dx4_mat" THEN BOOLEAN ELSE {FALSE})
    /\ d_pc = "call" /\ err = "none"
    /\ xs = <<>> /\ dx = 0
    /\ eye = <<>> /\ ddx = <<>> /\ d2dx2 = <<>> /\ d4dx4 = <<>>

Args == <<builder, xa, xb, nx, bcs, dx_int>>

\* the call raises: nothing is returned
Raise(e) ==
    /\ d_pc' = "raised"
    /\ err' = e
    /\ UNCHANGED <<Args, xs, dx, eye, ddx, d2dx2, d4dx4>>

\* return xs, dx, eye, ddx, d2dx2
Return(E, D, D2) ==
    /\ d_pc' = "returned"
    /\ xs' = Linspace(xa, xb, nx)
    /\ dx' = Linspace(xa, xb, nx)[1] - Linspace(xa, xb, nx)[0]
    /\ eye' = E
    /\ ddx' = D
    /\ d2dx2' = D2
    /\ UNCHANGED <<Args, err, d4dx4>>

ScaledEye(n) == Scale((n - 1) * (n - 1), Eye(n), n)

\* discretise(xa, xb, nx, bcs) of the Sturm-Liouville notebook
Discretise000 ==
    /\ d_pc = "call" /\ builder = "discretise_000"
    /\ IF nx < 0 THEN Raise("ValueError: Number of samples")
       ELSE IF nx < 2 THEN Raise("IndexError")
       ELSE IF bcs = "periodic"
            THEN Return(ScaledEye(nx), CentralD(nx), CentralD2(nx))
       ELSE IF bcs = "dirichlet"
            THEN IF OneSidedFits(nx)
                 THEN Return(ScaledEye(nx),
                             OneSided(CentralD(nx), nx, ForwardD, BackwardD),
                             OneSided(CentralD2(nx), nx, ForwardD2,
                                      BackwardD2))
                 ELSE Raise("ValueError: could not broadcast")
       ELSE IF bcs = "neumann"
            THEN IF OneSidedFits(nx)
                 THEN Return(NeumannEye(ScaledEye(nx), nx, xb - xa),
                             OneSided(CentralD(nx), nx, ForwardD, BackwardD),
                             OneSided(CentralD2(nx), nx, ForwardD2,
                                      BackwardD2))
                 ELSE Raise("ValueError: could not broadcast")
       ELSE Raise("ValueError: Unsupported BCs")
    /\ UNCHANGED fd_frame

\* discretise(xa, xb, nx) of the Orr-Sommerfeld notebook: no bcs argument
Discretise005 ==
    /\ d_pc = "call" /\ builder = "discretise_005"
    /\ IF nx < 0 THEN Raise("ValueError: Number of samples")
       ELSE IF nx < 2 THEN Raise("IndexError")
       ELSE IF OneSidedFits(nx)
            THEN Return(ScaledEye(nx),
                        OneSided(CentralD(nx), nx, ForwardD, BackwardD),
                        OneSided(CentralD2(nx), nx, ForwardD2, BackwardD2))
       ELSE Raise("ValueError: could not broadcast")
    /\ UNCHANGED fd_frame

\* a boundary treatment that leaves row 1 as the cyclic stencil
DirichletD4_keepsRow1(M, n) ==
    LET A == SetSlice(ZeroSlice(M, n, 0, 0, n), n, 0, 0, Bound(n, 5),
                      ForwardD4)
        C == ZeroSlice(A, n, At(n, 0 - 2), 0, n)
    IN ZeroSlice(C, n, At(n, 0 - 1), 0, n)

\* d4dx4[0, :] = 0; d4dx4[0, :5] = ...; d4dx4[1, :] = 0;
\* d4dx4[-2, :] = 0; d4dx4[-1, :] = 0
DirichletD4(M, n) ==
    LET A == SetSlice(ZeroSlice(M, n, 0, 0, n), n, 0, 0, Bound(n, 5),
                      ForwardD4)
        B == ZeroSlice(A, n, 1, 0, n)
        C == ZeroSlice(B, n, At(n, 0 - 2), 0, n)
    IN ZeroSlice(C, n, At(n, 0 - 1), 0, n)

ReturnD4(M) ==
    /\ d_pc' = "returned"
    /\ d4dx4' = M
    /\ UNCHANGED <<Args, err, xs, dx, eye, ddx, d2dx2>>

\* d4dx4_mat(nx, dx, bcs)
D4dx4Mat ==
    /\ d_pc = "call" /\ builder = "d4dx4_mat"
    /\ IF nx < 0 THEN Raise("ValueError: negative dimensions")
       ELSE IF bcs = "dirichlet"
            THEN IF nx = 0 THEN Raise("IndexError")
                 ELSE IF dx_int THEN Raise("TypeError")
                 ELSE IF ~SliceFits(0, Bound(nx, 5), ForwardD4)
                      THEN Raise("ValueError: could not broadcast")
                 ELSE ReturnD4(DirichletD4(CentralD4(nx), nx))
       ELSE IF bcs = "periodic" THEN ReturnD4(CentralD4(nx))
       ELSE Raise("ValueError")
    /\ UNCHANGED fd_frame

NextFD ==
    \/ Discretise000
    \/ Discretise005
    \/ D4dx4Mat

SpecFD == InitFD /\ [][NextFD]_vars

\* ---- properties ----

\* C1: the recorded times are strictly increasing: time[k] < time[k+1] for
\* every consecutive pair of recorded events.
C1_TimesStrictlyIncreasing ==
    \A k \in 1..(Len(ts) - 1) : ts[k] < ts[k + 1]

\* C2: in one step the candidates drawn for are those kept by the rate
\* filters, the next state is a kept candidate of least sampled waiting time,
\* t advances by exactly that candidate's waiting time, and exactly that
\* (new t, new state) pair is appended to the trajectory.
C2_ShortestTimeWins ==
    [][Len(history') = Len(history) + 1 =>
        /\ Len(times_to_move') = Len(transitions')
        /\ \A e \in States \X Rates :
              (\E i \in 1..Len(transitions') : transitions'[i] = e)
              <=> /\ \E i \in 1..Len(fun_result') : fun_result'[i] = e
                  /\ e[2] > 0
                  /\ (version = New /\ maxrate # 0) => e[2] < maxrate
        /\ \E i \in 1..Len(transitions') :
              /\ \A j \in 1..Len(transitions') :
                    times_to_move'[i] <= times_to_move'[j]
              /\ state' = transitions'[i][1]
              /\ t' = t + times_to_move'[i]
        /\ ts' = Append(ts, t')
        /\ history' = Append(history, state')]_vars

\* a step in which the second candidate's clock rang first and it won
C2_Witness ==
    /\ pc = "test"
    /\ Len(history) >= 2
    /\ Len(times_to_move) = 2
    /\ times_to_move[2] < times_to_move[1]
    /\ state = transitions[2][1]
    /\ state # transitions[1][1]
    /\ Last(ts) = t

\* C3: when the transition function returns an empty map or only rates <= 0,
\* the run halts at once: nothing is drawn, nothing is appended, the last
\* recorded state is the absorbing state, and no warning is issued.
C3_Absorption ==
    [][(/\ pc = "body"
        /\ \A i \in 1..Len(fun_result') : fun_result'[i][2] <= 0) =>
        /\ pc' = "post"
        /\ halt' = "absorbed"
        /\ ndraws' = 0
        /\ ts' = ts /\ history' = history
        /\ state' = state /\ t' = t
        /\ Last(history') = state
        /\ warned' = FALSE]_vars

\* absorbed after a jump, at a state whose map holds only non-positive rates
C3_Witness ==
    /\ halt = "absorbed" /\ pc = "post"
    /\ Len(history) >= 2
    /\ Len(fun_result) = 2
    /\ fun_result[1][2] = 0 /\ fun_result[2][2] < 0
    /\ ~warned

\* C4: with a ceiling configured and a positive-rate candidate present, the
\* run halts with the ceiling reported exactly when every positive-rate
\* candidate's rate is strictly greater than the ceiling.
C4_CeilingHaltIffAllExceed ==
    [][(/\ pc = "body"
        /\ version = New /\ maxrate # 0
        /\ \E i \in 1..Len(fun_result') : fun_result'[i][2] > 0) =>
        ((halt' = "ceiling" /\ warned')
         <=> \A i \in 1..Len(fun_result') :
                fun_result'[i][2] > 0 => fun_result'[i][2] > maxrate)]_vars

\* C5: a rate-ceiling halt raises nothing: the loop is left with a warning
\* and the trajectory untouched, and evolution (without a resampling grid)
\* returns exactly the events recorded before the halt, the first of which is
\* the initial event.
C5_CeilingHaltIsSoft ==
    [][/\ (halt = "none" /\ halt' = "ceiling") =>
            /\ pc' = "post" /\ warned'
            /\ ts' = ts /\ history' = history
       /\ (halt = "ceiling" /\ pc = "post") =>
            /\ pc' = "tail" /\ warned'
            /\ ts' = ts /\ history' = history
       /\ (halt = "ceiling" /\ pc = "tail" /\ ~resampled') =>
            /\ pc' = "returned" /\ warned'
            /\ Len(out') = Len(ts)
            /\ \A i \in 1..Len(ts) : out'[i] = <<ts[i], history[i]>>
            /\ out'[1] = <<tmin, state0>>]_vars

\* a run that jumped, hit the ceiling and returned its truncated trajectory
C5_Witness ==
    /\ halt = "ceiling" /\ pc = "returned" /\ ~resampled
    /\ warned
    /\ Len(out) >= 2

\* C6: every recorded event except possibly the last has a time strictly
\* before t_max (so at most one recorded event is at or after t_max).
C6_OnlyLastAtOrAfterTmax ==
    \A k \in 1..(Len(ts) - 1) : ts[k] < tmax

\* C7: the first recorded event is (t_span.start, state0).
C7_FirstEventIsStart ==
    ts[1] = tmin /\ history[1] = state0

\* C8: for a query q between the first and the last recorded time the
\* resampled state is that of a recorded event of greatest time <= q, and
\* when q is a jump time it is the state after that jump.
C8_LastKnownValue ==
    (pc = "returned" /\ resampled) =>
        \A i \in 1..Len(t_eval) :
            (ts[1] <= t_eval[i] /\ t_eval[i] <= Last(ts)) =>
                /\ out[i][1] = t_eval[i]
                /\ \E k \in 1..Len(ts) :
                      /\ ts[k] <= t_eval[i]
                      /\ \A j \in 1..Len(ts) :
                            ts[j] <= t_eval[i] => ts[j] <= ts[k]
                      /\ out[i][2] = history[k]
                /\ \A k \in 2..Len(ts) :
                      ts[k] = t_eval[i] => out[i][2] = history[k]

\* C9: resampling on a grid of times >= the trajectory start does not fail,
\* and a query later than the last recorded event gets the last recorded
\* state.
C9_QueryAfterLastEvent ==
    (/\ resampled /\ pc \in {"returned", "raised"}
     /\ \A i \in 1..Len(t_eval) : t_eval[i] >= ts[1]) =>
        /\ pc = "returned"
        /\ \A i \in 1..Len(t_eval) :
              t_eval[i] > Last(ts) => out[i][2] = Last(history)

\* C10: resampling fails, with no output, exactly when some query time is
\* strictly earlier than the first recorded time.
C10_FailsIffQueryBeforeStart ==
    (resampled /\ pc \in {"returned", "raised"}) =>
        ((pc = "raised" /\ out = <<>>)
         <=> \E i \in 1..Len(t_eval) : t_eval[i] < ts[1])

\* ---- the eigenproblem wrappers ----
\* Sequences are indexed from 1 where the arrays are indexed from 0.

\* the number of eigenvalues orrsommsolver drops: `[6:]`
Drop == 6

\* eigenvalues eig may return: equal real parts with different imaginary
\* parts, and equal magnitudes
Eigenvalues == {<<0, 1>>, <<1, 0>>, <<0, 0 - 2>>}
Wavenumbers == {0 - 1, 1}
EigSizes == 1..MaxEig
OrrSizes == {Drop + 1, Drop + 2}

\* np.real, and the order abs puts complex numbers in
Re(z) == z[1]
Im(z) == z[2]
Mag2(z) == z[1] * z[1] + z[2] * z[2]

\* an insertion that puts an index before the entries of equal key
InsertStable_beforeEquals(sq, i, key) ==
    LET k == Cardinality({q \in 1..Len(sq) : key[sq[q]] < key[i]})
    IN SubSeq(sq, 1, k) \o <<i>> \o SubSeq(sq, k + 1, Len(sq))

\* index i, the last so far, goes after every entry of key <= key[i]
InsertStable(sq, i, key) ==
    LET k == Cardinality({q \in 1..Len(sq) : key[sq[q]] <= key[i]})
    IN SubSeq(sq, 1, k) \o <<i>> \o SubSeq(sq, k + 1, Len(sq))

RECURSIVE SortedRange(_, _)
\* sorted(range(n), key=lambda i: key[i]): ascending and stable
SortedRange(key, n) ==
    IF n = 0 THEN <<>> ELSE InsertStable(SortedRange(key, n - 1), n, key)

\* sorted(range(n), key=..., reverse=True): descending, equal keys in their
\* original order
SortedRangeReversed(key, n) ==
    SortedRange([i \in 1..n |-> 0 - key[i]], n)

\* a[index] for an index list
Take(a, index) == [j \in 1..Len(index) |-> a[index[j]]]

\* a rescaling that is applied twice
TimesSqrtNx_twice(col) == [i \in 1..Len(col) |-> <<col[i][1], col[i][2] + 2>>]

\* column * sqrt(nx)
TimesSqrtNx(col) == [i \in 1..Len(col) |-> <<col[i][1], col[i][2] + 1>>]

\* the eigenvectors eig returns: every entry tells its row and its column
SolverVectors(n) ==
    [j \in 1..n |-> [i \in 1..n |-> <<i + n * (j - 1), 0>>]]

\* a call of myeig, or of orrsommsolver up to its call of myeig, with what
\* eig is about to return
InitEig ==
    /\ EvolutionIdle
    /\ FdIdle
    /\ GdIdle
    /\ OwnIdle
    /\ caller \in {"myeig", "orrsommsolver"}
    /\ e_nx \in (IF caller = "myeig" THEN EigSizes ELSE OrrSizes)
    /\ alpha \in (IF caller = "myeig" THEN {0} ELSE Wavenumbers)
    /\ b_singular \in (IF caller = "myeig" THEN BOOLEAN ELSE {FALSE})
    /\ s_eigvals \in [1..e_nx -> Eigenvalues]
    /\ s_eigvecs = SolverVectors(e_nx)
    /\ ordering = <<>> /\ keep = <<>> /\ growths = <<>>
    /\ eigvals = <<>> /\ eigvecs = <<>>
    /\ e_pc = "call"

EigInput == <<caller, e_nx, alpha, b_singular, s_eigvals, s_eigvecs>>

\* myeig(op, eye): eig returns for a singular eye as well (with infinite
\* eigenvalues), myeig itself looks at neither matrix
Myeig ==
    /\ e_pc = "call"
    /\ LET order == SortedRange([i \in 1..e_nx |-> Re(s_eigvals[i])], e_nx)
       IN /\ ordering' = order
          /\ eigvals' = Take(s_eigvals, order)
          /\ eigvecs' = [j \in 1..e_nx |-> TimesSqrtNx(Take(s_eigvecs, order)[j])]
    /\ e_pc' = IF caller = "myeig" THEN "returned" ELSE "myeig_returned"
    /\ UNCHANGED <<EigInput, keep, growths>>
    /\ UNCHANGED eig_frame

\* -1j * alpha * z
Growth(a, z) == <<a * Im(z), 0 - a * Re(z)>>

\* col[2:-2]
Trim(col) == SubSeq(col, 3, Len(col) - 2)

\* orrsommsolver after its call of myeig
OrrSommSolver ==
    /\ e_pc = "myeig_returned"
    /\ LET n == Len(eigvals)
           all_growths == [i \in 1..n |-> Growth(alpha, eigvals[i])]
           by_abs == SortedRange([i \in 1..n |-> Mag2(eigvals[i])], n)
           kept == SubSeq(by_abs, Drop + 1, n)
           g == Take(all_growths, kept)
           v == Take(eigvals, kept)
           c == Take(eigvecs, kept)
           order == SortedRangeReversed([i \in 1..Len(kept) |-> Re(g[i])],
                                        Len(kept))
       IN /\ keep' = kept
          /\ ordering' = order
          /\ growths' = Take(g, order)
          /\ eigvals' = Take(v, order)
          /\ eigvecs' = [j \in 1..Len(order) |-> Trim(Take(c, order)[j])]
    /\ e_pc' = "returned"
    /\ UNCHANGED EigInput
    /\ UNCHANGED eig_frame

NextEig ==
    \/ Myeig
    \/ OrrSommSolver

SpecEig == InitEig /\ [][NextEig]_vars

\* ---- gradient descent ----
\* Iterates and function values are integers; f and gradf are any functions.

StepCounts == 0..MaxSteps
Tolerances == {0, 1}
\* rate * gradf(x_prev)
Moves == {0, 1}
\* f(x_new)
Values == {0, 1, 2}

Abs(x) == IF x < 0 THEN 0 - x ELSE x

InitGD ==
    /\ EvolutionIdle
    /\ FdIdle
    /\ EigIdle
    /\ OwnIdle
    /\ min_steps \in 0..(MaxSteps + 1)
    /\ max_steps \in StepCounts
    /\ abstol \in Tolerances
    /\ guesses = <<0>>
    /\ fs \in [1..1 -> Values]
    /\ g_pc = "test"

GdArgs == <<min_steps, max_steps, abstol>>

\* the loop condition: `or` evaluates fs[-2] only when min_steps is reached,
\* and fs[-2] of a single value raises IndexError
TestSteps ==
    /\ g_pc = "test"
    /\ IF min_steps > Len(guesses)
       THEN g_pc' = IF Len(guesses) < max_steps THEN "body" ELSE "returned"
       ELSE IF Len(fs) < 2
            THEN g_pc' = "raised"
            ELSE g_pc' = IF /\ Abs(fs[Len(fs)] - fs[Len(fs) - 1]) > abstol
                            /\ Len(guesses) < max_steps
                         THEN "body" ELSE "returned"
    /\ UNCHANGED <<GdArgs, guesses, fs>>
    /\ UNCHANGED gd_frame

\* the loop body: one more iterate and its function value
Descend(move, value) ==
    /\ g_pc = "body"
    /\ guesses' = Append(guesses, Last(guesses) - move)
    /\ fs' = Append(fs, value)
    /\ g_pc' = "test"
    /\ UNCHANGED GdArgs
    /\ UNCHANGED gd_frame

DescendOnce == \E move \in Moves : \E value \in Values : Descend(move, value)

NextGD ==
    \/ TestSteps
    \/ DescendOnce

SpecGD == InitGD /\ [][NextGD]_vars

\* ---- the arrays discretise returns ----
\* Every numpy call of discretise (linspace, eye, roll, the arithmetic)
\* allocates a new array; the slice assignments of its boundary branches
\* write into the arrays it has just allocated.

OwnNx == 4
OwnTags == {"periodic", "neumann"}
Fields == {"eye", "ddx", "d2dx2"}
\* the calls made: two
Callers == {1, 2}

BuiltEye(tag, n, S) ==
    IF tag = "neumann" THEN NeumannEye(ScaledEye(n), n, S) ELSE ScaledEye(n)

BuiltD(tag, n) ==
    IF tag = "periodic" THEN CentralD(n)
    ELSE OneSided(CentralD(n), n, ForwardD, BackwardD)

BuiltD2(tag, n) ==
    IF tag = "periodic" THEN CentralD2(n)
    ELSE OneSided(CentralD2(n), n, ForwardD2, BackwardD2)

\* a build whose first derivative is computed in the buffer of eye
Returned_sharedBuffer(h) ==
    [xs |-> Len(h) + 1, eye |-> Len(h) + 2, ddx |-> Len(h) + 2,
     d2dx2 |-> Len(h) + 4]

\* return xs, dx, eye, ddx, d2dx2: the four arrays allocated by this call
Returned(h) ==
    [xs |-> Len(h) + 1, eye |-> Len(h) + 2, ddx |-> Len(h) + 3,
     d2dx2 |-> Len(h) + 4]

InitOwn ==
    /\ EvolutionIdle
    /\ FdIdle
    /\ EigIdle
    /\ GdIdle
    /\ OwnIdle

\* xs, dx, eye, ddx, d2dx2 = discretise(0, 1, nx, tag)
CallDiscretise(tag) ==
    /\ Len(calls) < Cardinality(Callers)
    /\ heap' = heap \o <<Linspace(0, 1, OwnNx), BuiltEye(tag, OwnNx, 1),
                         BuiltD(tag, OwnNx), BuiltD2(tag, OwnNx)>>
    /\ calls' = Append(calls, Returned(heap))
    /\ UNCHANGED own_frame

\* the caller's M[r, :] = 0 on one of the matrices a call returned
OverwriteRow(c, f, r) ==
    /\ c \in 1..Len(calls)
    /\ heap' = [heap EXCEPT ![calls[c][f]] =
                    ZeroSlice(@, OwnNx, At(OwnNx, r), 0, OwnNx)]
    /\ heap' # heap
    /\ UNCHANGED calls
    /\ UNCHANGED own_frame

Build == \E tag \in OwnTags : CallDiscretise(tag)

ImposeBoundary ==
    \E c \in Callers : \E f \in Fields : \E r \in {0, 0 - 1} :
        OverwriteRow(c, f, r)

NextOwn ==
    \/ Build
    \/ ImposeBoundary

SpecOwn == InitOwn /\ [][NextOwn]_vars

\* ---- properties of gradient descent and of the returned arrays ----

Least(a, b) == IF a < b THEN a ELSE b

\* C30: for min_steps >= 0 and max_steps >= 1 gradient_descent raises
\* nothing, returns at most max_steps and at least min(min_steps, max_steps)
\* iterates with one function value each, and returns fewer than max_steps
\* only when the last two function values differ by at most abstol.
C30_DescentTerminatesCleanly ==
    (min_steps >= 0 /\ max_steps >= 1) =>
        /\ g_pc # "raised"
        /\ Len(fs) = Len(guesses)
        /\ g_pc = "returned" =>
              /\ Len(guesses) <= max_steps
              /\ Len(guesses) >= Least(min_steps, max_steps)
              /\ Len(guesses) < max_steps =>
                    Abs(fs[Len(fs)] - fs[Len(fs) - 1]) <= abstol

\* the arrays that the calls made so far have returned
Handles == {<<c, f>> : c \in 1..Len(calls), f \in Fields \cup {"xs"}}
Object(h) == calls[h[1]][h[2]]

C11_NonPositiveRatesIgnored ==
    [][(/\ pc = "body"
        /\ \E i \in 1..Len(fun_result') : fun_result'[i][2] <= 0
        /\ \E i \in 1..Len(fun_result') : fun_result'[i][2] > 0)
       => /\ pc' # "raised"
          /\ halt' # "absorbed"
          /\ \A i \in 1..Len(transitions') : transitions'[i][2] > 0
          /\ ndraws' = Len(transitions')
          /\ halt' = "ceiling" =>
                /\ CeilingOn(version, maxrate)
                /\ \A i \in 1..Len(fun_result') :
                      fun_result'[i][2] > 0 => fun_result'[i][2] >= maxrate
          /\ halt' = "none" =>
                /\ pc' = "test"
                /\ \E i \in 1..Len(fun_result') :
                      fun_result'[i][1] = state' /\ fun_result'[i][2] > 0
      ]_vars

C11_Witness ==
    /\ pc = "test" /\ Len(fun_result) = 2 /\ Len(transitions) = 1
    /\ \E i \in 1..2 : fun_result[i][2] < 0 /\ fun_result[i][1] # state
    /\ ndraws = 1 /\ state = transitions[1][1] /\ Len(history) > 1

\* the draws of one iteration: one positive time per kept candidate
DrawLists(n) == [1..n -> Draws]

\* some draws of the iteration make candidate k the next recorded state
CanWin(m, k) ==
    ENABLED (\E d \in DrawLists(Len(Kept(version, maxrate, m))) :
                Jump(m, d) /\ state' = k /\ Last(history') = k)

\* a ceiling is configured
Ceiling == version = New /\ maxrate # 0

\* the candidates of m with rate > 0 and, under a ceiling, rate below it
Eligible(m) ==
    {m[i][1] : i \in {q \in 1..Len(m) :
                        m[q][2] > 0 /\ (Ceiling => m[q][2] < maxrate)}}

\* C25: from any (t, state) with t < tmax, every candidate of the transition
\* map with rate > 0 (and, under a ceiling, rate below it) can be recorded
\* as the next event, and the state an iteration records is always such a
\* candidate.
C25_NextStatesAreEligible ==
    /\ [](pc = "body" =>
            \A m \in FunMaps(fun, state) : \A k \in Eligible(m) : CanWin(m, k))
    /\ [][(pc = "body" /\ pc' = "test") =>
            /\ state' \in Eligible(fun_result')
            /\ Last(history') = state'
         ]_vars

C25_Witness ==
    /\ pc = "test" /\ Len(transitions) = 2 /\ ndraws = 2
    /\ state = transitions[2][1] /\ Last(history) = state
    /\ times_to_move[2] < times_to_move[1]

\* C28: under a ceiling, in an iteration whose map holds a candidate of rate
\* at or above the ceiling beside one of positive rate below it, the former
\* is dropped and never becomes the next state, no warning is issued, and
\* the run goes on with the candidates below the ceiling.
C28_AboveCeilingDroppedSilently ==
    [][(/\ pc = "body" /\ Ceiling
        /\ \E i \in 1..Len(fun_result') : fun_result'[i][2] >= maxrate
        /\ \E i \in 1..Len(fun_result') :
              fun_result'[i][2] > 0 /\ fun_result'[i][2] < maxrate)
       => /\ pc' = "test" /\ halt' = "none" /\ warned' = warned
          /\ \A i \in 1..Len(transitions') :
                transitions'[i][2] > 0 /\ transitions'[i][2] < maxrate
          /\ ndraws' = Len(transitions')
          /\ \E i \in 1..Len(transitions') : transitions'[i][1] = state'
          /\ Len(history') = Len(history) + 1
      ]_vars

C28_Witness ==
    /\ pc = "test" /\ Ceiling /\ ~warned /\ halt = "none"
    /\ Len(fun_result) = 2 /\ Len(transitions) = 1
    /\ \E i \in 1..2 : fun_result[i][2] >= maxrate /\ fun_result[i][1] # state
    /\ state = transitions[1][1] /\ Len(history) > 1

\* a is b, or b with entries appended
Extends(a, b) == Len(a) >= Len(b) /\ SubSeq(a, 1, Len(b)) = b

\* C29: the time list and the state list always have equal length; an
\* iteration that does not halt appends exactly one time and one state, no
\* step modifies or removes an earlier entry, and a run without a
\* resampling grid returns one event per recorded entry, i.e. k + 1 events
\* after k steps.
C29_AppendOnly ==
    /\ [](Len(ts) = Len(history))
    /\ [][/\ Extends(ts', ts) /\ Extends(history', history)
          /\ (pc = "body" /\ pc' = "test") =>
                Len(ts') = Len(ts) + 1 /\ Len(history') = Len(history) + 1
          /\ ~(pc = "body" /\ pc' = "test") =>
                ts' = ts /\ history' = history
          /\ (pc' = "returned" /\ ~resampled') =>
                /\ Len(out') = Len(history)
                /\ \A i \in 1..Len(out') : out'[i] = <<ts[i], history[i]>>
        ]_vars

C29_Witness ==
    /\ pc = "returned" /\ ~resampled
    /\ Len(history) = 3 /\ Len(ts) = 3 /\ Len(out) = 3

\* n, n-1, ..., 1, 0
Countdown(n) == [i \in 1..(n + 1) |-> n + 1 - i]

\* the state is never negative, and a run that ends before its time limit
\* ends absorbed with n, ..., 0 recorded and 0 as its final state
CountsDown ==
    /\ state >= 0
    /\ (pc = "post" /\ halt # "tmax") =>
          /\ halt = "absorbed"
          /\ history = Countdown(state0)
          /\ state = 0

BelowCeiling == ~CeilingOn(version, maxrate) \/ state0 < maxrate

MyeigReturned ==
    e_pc = "myeig_returned" \/ (e_pc = "returned" /\ caller = "myeig")

\* C22: for a regular mass matrix, myeig returns the eigenvalues in
\* ascending order of real part, and eigenvalues of equal real part in the
\* order in which eig returned them, whatever their imaginary parts.
C22_AscendingStable ==
    (MyeigReturned /\ ~b_singular) =>
        /\ \A j \in 1..(e_nx - 1) : Re(eigvals[j]) <= Re(eigvals[j + 1])
        /\ \A j \in 1..e_nx : eigvals[j] = s_eigvals[ordering[j]]
        /\ \A j \in 1..e_nx : \A k \in (j + 1)..e_nx :
              Re(eigvals[j]) = Re(eigvals[k]) => ordering[j] < ordering[k]

C22_Witness ==
    /\ MyeigReturned /\ ~b_singular /\ e_nx >= 3
    /\ Re(eigvals[1]) = Re(eigvals[2]) /\ Im(eigvals[1]) > Im(eigvals[2])
    /\ ordering[1] = 1 /\ ordering[2] = 3

\* C23: myeig only permutes and rescales: `ordering` is a permutation, the
\* eigenvalue in position j is the solver's eigenvalue ordering[j],
\* unscaled, and column j is the solver's column ordering[j] times sqrt(nx),
\* once.
C23_PermutedAndRescaledOnce ==
    MyeigReturned =>
        /\ Len(ordering) = e_nx /\ Len(eigvals) = e_nx /\ Len(eigvecs) = e_nx
        /\ {ordering[j] : j \in 1..e_nx} = 1..e_nx
        /\ \A j \in 1..e_nx :
              /\ eigvals[j] = s_eigvals[ordering[j]]
              /\ eigvecs[j] =
                    [i \in 1..e_nx |-> <<s_eigvecs[ordering[j]][i][1], 1>>]

C23_Witness ==
    /\ MyeigReturned /\ e_nx >= 2 /\ ordering[1] # 1
    /\ eigvecs[1] # s_eigvecs[1] /\ eigvecs[1][1][2] = 1

\* C24: myeig fails whenever the mass matrix is singular, instead of
\* returning eigenpairs.
C24_SingularMassRejected ==
    (b_singular /\ e_pc # "call") => e_pc = "raised"

Count(sq, z) == Cardinality({i \in 1..Len(sq) : sq[i] = z})

\* the solver's column a trimmed column was cut from
ColumnOf(col) == (col[1][1] - 3) \div e_nx + 1

\* C27: orrsommsolver drops exactly the four eigenvalues of smallest
\* magnitude and keeps the others, and returns growth rates, eigenvalues and
\* eigenvectors in descending order of the real part of the growth rate,
\* column k belonging to eigenvalue k.
C27_DropsFourSmallest ==
    (caller = "orrsommsolver" /\ e_pc = "returned") =>
        /\ Len(eigvals) = e_nx - 4
        /\ \E K \in SUBSET (1..e_nx) :
              /\ Cardinality(K) = e_nx - 4
              /\ \A i \in K : \A j \in (1..e_nx) \ K :
                    Mag2(s_eigvals[i]) >= Mag2(s_eigvals[j])
              /\ \A z \in Eigenvalues :
                    Count(eigvals, z) =
                        Cardinality({i \in K : s_eigvals[i] = z})
        /\ \A k \in 1..Len(eigvals) : growths[k] = Growth(alpha, eigvals[k])
        /\ \A k \in 1..(Len(eigvals) - 1) :
              Re(growths[k]) >= Re(growths[k + 1])
        /\ \A k \in 1..Len(eigvals) :
              s_eigvals[ColumnOf(eigvecs[k])] = eigvals[k]

\* ---- properties of the finite-difference builders ----

RECURSIVE Dot(_, _, _)
\* (M f)[i] for a row M[i] and samples f, both of length n
Dot(row, f, n) == IF n = 0 THEN 0 ELSE row[n - 1] * f[n - 1] + Dot(row, f, n - 1)

RECURSIVE Pow(_, _)
Pow(x, k) == IF k = 0 THEN 1 ELSE x * Pow(x, k - 1)

Unit(n, k) == [j \in Idx(n) |-> IF j = k THEN 1 ELSE 0]

\* samples a difference formula is tried on: a basis, and one more
Samples(n) == {Unit(n, k) : k \in Idx(n)} \cup {[j \in Idx(n) |-> j * j - 3 * j]}

\* samples of x^k on the grid, times (nx - 1)^k
Monomial(k) == [j \in Idx(nx) |-> Pow(xs[j], k)]

Discretised == d_pc = "returned" /\ builder \in {"discretise_000", "discretise_005"}
D4Built == d_pc = "returned" /\ builder = "d4dx4_mat"

\* the rows of D and D2 (times 6 dx, dx^2) are the central differences with
\* the neighbours of i taken at lo(i) and hi(i)
CentralRows(rows, lo(_), hi(_)) ==
    \A i \in rows : \A f \in Samples(nx) :
        /\ Dot(ddx[i], f, nx) = 3 * (f[hi(i)] - f[lo(i)])
        /\ Dot(d2dx2[i], f, nx) = f[hi(i)] - 2 * f[i] + f[lo(i)]

CentralRowsD4(rows, wrap(_)) ==
    \A i \in rows : \A f \in Samples(nx) :
        Dot(d4dx4[i], f, nx) =
            f[wrap(i - 2)] - 4 * f[wrap(i - 1)] + 6 * f[i]
            - 4 * f[wrap(i + 1)] + f[wrap(i + 2)]

Same(i) == i
Before(i) == i - 1
After(i) == i + 1
Cyclic(i) == i % nx
CyclicBefore(i) == (i - 1) % nx
CyclicAfter(i) == (i + 1) % nx

\* C14: on every returned grid with dx # 0 and under every boundary policy,
\* each interior row i (1 <= i <= nx-2) of D is the central difference
\* (f[i+1] - f[i-1]) / (2 dx), forward minus backward, and of D2 is
\* (f[i+1] - 2 f[i] + f[i-1]) / dx^2; each row 2 <= i <= nx-3 of D4 is the
\* 5-point central difference; and D2 applied to samples of x^2 gives
\* exactly 2 at the interior points.
C14_InteriorStencils ==
    /\ (Discretised /\ dx # 0) =>
          /\ CentralRows(1..(nx - 2), Before, After)
          /\ \A i \in 1..(nx - 2) : Dot(d2dx2[i], Monomial(2), nx) = 2 * dx * dx
    /\ D4Built => CentralRowsD4(2..(nx - 3), Same)

C14_Witness ==
    /\ Discretised /\ builder = "discretise_000" /\ bcs = "dirichlet"
    /\ nx >= 5 /\ xa < xb
    /\ ddx[1][2] = 3 /\ ddx[1][0] = 0 - 3

\* C15: under the periodic policy every row of D, D2 and D4, the boundary
\* rows included, is the central stencil with neighbour indices taken
\* modulo nx (row 0 refers to columns 1 and nx-1, row nx-1 to columns nx-2
\* and 0).
C15_PeriodicWraps ==
    /\ (Discretised /\ bcs = "periodic") =>
          CentralRows(Idx(nx), CyclicBefore, CyclicAfter)
    /\ (D4Built /\ bcs = "periodic") => CentralRowsD4(Idx(nx), Cyclic)

C15_Witness ==
    /\ Discretised /\ bcs = "periodic" /\ nx >= 5
    /\ ddx[0][1] = 3 /\ ddx[0][nx - 1] = 0 - 3
    /\ d2dx2[nx - 1][0] = 1 /\ d2dx2[nx - 1][nx - 2] = 1

\* the dirichlet builds: dirichlet of the Sturm-Liouville
\* notebook, and every build of the Orr-Sommerfeld notebook
OneSidedBuild ==
    /\ Discretised
    /\ builder = "discretise_000" => bcs = "dirichlet"

\* row r of D and D2 returns the exact derivatives of x^k at x_r:
\*   sum_j D[r][j] x_j^k = k x_r^(k-1),  sum_j D2[r][j] x_j^k = k (k-1) x_r^(k-2)
ExactAt(r, k) ==
    /\ Dot(ddx[r], Monomial(k), nx) =
          (IF k = 0 THEN 0 ELSE 6 * dx * k * Pow(xs[r], k - 1))
    /\ Dot(d2dx2[r], Monomial(k), nx) =
          (IF k < 2 THEN 0 ELSE dx * dx * k * (k - 1) * Pow(xs[r], k - 2))

\* rows 0 and nx-1 of D and D2 are one-sided and exact up to degree 3, and
\* the rows between them are central
OneSidedRows ==
    /\ \A j \in Idx(nx) : j >= 4 => ddx[0][j] = 0 /\ d2dx2[0][j] = 0
    /\ \A j \in Idx(nx) :
          j < nx - 4 => ddx[nx - 1][j] = 0 /\ d2dx2[nx - 1][j] = 0
    /\ \A k \in 0..3 : ExactAt(0, k) /\ ExactAt(nx - 1, k)
    /\ CentralRows(1..(nx - 2), Before, After)

\* C16: under the dirichlet policy (nx >= 4) rows 0 and nx-1 of D and D2
\* have non-zero entries only in the four columns nearest their boundary,
\* are exact on the monomials 1, x, x^2, x^3 (hence on every polynomial of
\* degree <= 3), and the interior rows are the central stencil.
C16_DirichletOneSided == (OneSidedBuild /\ nx >= 4) => OneSidedRows

C16_Witness ==
    /\ OneSidedBuild /\ builder = "discretise_005" /\ nx >= 5 /\ xa < xb
    /\ ddx[0][0] = 0 - 11 /\ d2dx2[0][3] = 0 - 1 /\ ddx[0][nx - 1] = 0

\* C17: under the neumann policy D and D2 are as under dirichlet, and rows
\* 0 and nx-1 of the returned identity are a one-sided first-derivative
\* stencil: the entries of the row sum to zero, and applied to samples of
\* f(x) = x it returns 1.
C17_NeumannIdentityRows ==
    (Discretised /\ bcs = "neumann") =>
        /\ OneSidedRows
        /\ \A r \in {0, nx - 1} :
              /\ Dot(eye[r], Monomial(0), nx) = 0
              /\ Dot(eye[r], Monomial(1), nx) = Pow(nx - 1, 3)

ZeroRow(M, r) == \A j \in Idx(nx) : M[r][j] = 0

\* C18 as stated: for D4 under the dirichlet policy rows 0, 1, nx-2 and nx-1
\* are all-zero rows and every other row is the 5-point central stencil.
C18_BoundaryRowsZero ==
    (D4Built /\ bcs = "dirichlet") =>
        /\ \A r \in {0, 1, nx - 2, nx - 1} : ZeroRow(d4dx4, r)
        /\ CentralRowsD4(2..(nx - 3), Same)

\* C18 amended: for D4 under the dirichlet policy rows 1, nx-2 and nx-1 are
\* all-zero rows, row 0 holds the one-sided stencil (1, -4, 6, -4, 1) / dx^4
\* in columns 0..4 and zero elsewhere, and every other row is the 5-point
\* central stencil.
C18_BoundaryRows ==
    (D4Built /\ bcs = "dirichlet") =>
        /\ \A r \in {1, nx - 2, nx - 1} : ZeroRow(d4dx4, r)
        /\ \A j \in Idx(nx) :
              d4dx4[0][j] = (IF j < 5 THEN ForwardD4[j + 1] ELSE 0)
        /\ CentralRowsD4(2..(nx - 3), Same)

C18_Witness ==
    /\ D4Built /\ bcs = "dirichlet" /\ nx >= 6
    /\ d4dx4[0][0] = 1 /\ ZeroRow(d4dx4, 1) /\ d4dx4[2][2] = 6

Supported == {"periodic", "dirichlet", "neumann"}

\* C19: a call with a tag other than the supported ones fails and returns no
\* matrices, and a call with a supported tag (periodic, dirichlet, neumann)
\* is not rejected for its tag, by the {I, D, D2} builder or the D4 builder.
C19_TagsAcceptedOrRejected ==
    (builder \in {"discretise_000", "d4dx4_mat"} /\ d_pc # "call") =>
        /\ bcs \notin Supported => d_pc = "raised"
        /\ (bcs \in Supported /\ d_pc = "raised") =>
              err \notin {"ValueError: Unsupported BCs", "ValueError"}

\* C20: discretise fails, returning no grid or matrices, whenever nx < 2 or
\* xa >= xb.
C20_BadDomainRejected ==
    (builder \in {"discretise_000", "discretise_005"} /\ d_pc # "call"
        /\ (nx < 2 \/ xa >= xb)) => d_pc = "raised"

\* C21: for xa < xb and nx >= 2 the returned grid has exactly nx points, the
\* first is xa, the last is xb, all consecutive spacings are equal, and the
\* returned dx is (xb - xa) / (nx - 1).
C21_GridInvariant ==
    (Discretised /\ xa < xb /\ nx >= 2) =>
        /\ DOMAIN xs = Idx(nx)
        /\ xs[0] = xa * (nx - 1)
        /\ xs[nx - 1] = xb * (nx - 1)
        /\ \A i \in 0..(nx - 2) : xs[i + 1] - xs[i] = dx
        /\ dx = xb - xa

C21_Witness ==
    /\ Discretised /\ xa < xb /\ nx >= 3
    /\ xs[0] = xa * (nx - 1) /\ xs[nx - 1] = xb * (nx - 1)
    /\ xs[2] - xs[1] = xb - xa

====
